---------------------------- MODULE Spec2Model ----------------------------
(***************************************************************************)
(* Conway's Game of Life on a sparse set of 64-bit cell keys (Organism.h)  *)
(* together with the benchmark driver that seeds and ticks it              *)
(* (tbench1.cpp).                                                          *)
(*                                                                         *)
(* A coordinate is a C++ int32_t, held here as an integer of               *)
(* MinCoord..MaxCoord.  A cell key is a C++ uint64_t, held here as its     *)
(* four 16-bit limbs, so that the macros XX, YY and WW are modelled by the *)
(* shifts, masks and casts they are made of.                               *)
(***************************************************************************)
EXTENDS Integers, Sequences, FiniteSets

(***************************************************************************)
(* Bounds of the model.                                                    *)
(***************************************************************************)
MaxLines == 3
MaxTicks == 2

(***************************************************************************)
(* cell_coord_type is int32_t.                                             *)
(***************************************************************************)
MaxCoord == 2147483647
MinCoord == -MaxCoord - 1

(***************************************************************************)
(* A 64-bit value is held as its four 16-bit limbs, least significant      *)
(* first: <<bits 0..15, bits 16..31, bits 32..47, bits 48..63>>.           *)
(***************************************************************************)
Limb == 2 ^ 16

(***************************************************************************)
(* Bitwise and, or of two limbs, bit by bit from the least significant.    *)
(***************************************************************************)
RECURSIVE LimbAnd(_, _)
LimbAnd(a, b) ==
  IF a = 0 \/ b = 0 THEN 0
  ELSE (a % 2) * (b % 2) + 2 * LimbAnd(a \div 2, b \div 2)

RECURSIVE LimbOr(_, _)
LimbOr(a, b) ==
  IF a = 0 THEN b
  ELSE IF b = 0 THEN a
  ELSE (IF a % 2 = 1 \/ b % 2 = 1 THEN 1 ELSE 0) + 2 * LimbOr(a \div 2, b \div 2)

BitAnd(a, b) == [i \in 1..4 |-> LimbAnd(a[i], b[i])]
BitOr(a, b) == [i \in 1..4 |-> LimbOr(a[i], b[i])]
\* w << 32.  Of a negative cell_signed_whole_type the shift is undefined by
\* the letter of C++11; the compilers define it as the shift of the bits.
Shl32(w) == <<0, 0, w[1], w[2]>>
\* w >> 32 of an unsigned 64-bit value: zeros come in at the top.
Shr32(w) == <<w[3], w[4], 0, 0>>
\* w >> 32 of a signed 64-bit value: copies of the sign bit come in at the top.
Sar32(w) ==
  LET s == IF w[4] >= Limb \div 2 THEN Limb - 1 ELSE 0 IN <<w[3], w[4], s, s>>
\* 0xFFFFFFFF converted to 64 bits.
Mask32 == <<Limb - 1, Limb - 1, 0, 0>>

(***************************************************************************)
(* (cell_signed_whole_type)(x): the two's complement limbs of an int32_t,  *)
(* sign-extended to 64 bits.                                               *)
(***************************************************************************)
SignExtend(x) ==
  LET s == IF x < 0 THEN Limb - 1 ELSE 0
  IN  <<x % Limb, (x \div Limb) % Limb, s, s>>

(***************************************************************************)
(* (cell_coord_type)(w): the low 32 bits of w read as a signed number.     *)
(***************************************************************************)
ToCoord(w) ==
  IF w[2] >= Limb \div 2
    THEN ((w[2] - Limb \div 2) * Limb + w[1]) + MinCoord
    ELSE w[2] * Limb + w[1]

\* WW without the & 0xFFFFFFFF: the sign extension of x runs into y's half.
PackWholeNoMask(xw, yw) == BitOr(Shl32(yw), xw)

(***************************************************************************)
(* WW on operands already converted to cell_signed_whole_type.             *)
(***************************************************************************)
PackWhole(xw, yw) == BitOr(Shl32(yw), BitAnd(xw, Mask32))

WW(x, y) == PackWhole(SignExtend(x), SignExtend(y))
XX(w) == ToCoord(w)
YY(w) == ToCoord(BitAnd(Shr32(w), Mask32))
\* YY applied to the cell_signed_whole_type that WW yields, before any conversion.
YYSigned(w) == ToCoord(BitAnd(Sar32(w), Mask32))

(***************************************************************************)
(* 64-bit addition of two limb vectors, carry rippling upwards.            *)
(***************************************************************************)
RECURSIVE AddFrom(_, _, _, _)
AddFrom(a, b, i, carry) ==
  IF i > 4 THEN <<>>
  ELSE LET s == a[i] + b[i] + carry
       IN  <<s % Limb>> \o AddFrom(a, b, i + 1, s \div Limb)

Add64(a, b) == AddFrom(a, b, 1, 0)

(***************************************************************************)
(* The operand (cell_signed_whole_type)(x + d) of WW(x-1, ...), WW(x+1,    *)
(* ...).  x + d is int arithmetic: inside the int32_t range it has one     *)
(* value.  At x = MaxCoord, d = 1 and at x = MinCoord, d = -1 it is a      *)
(* signed overflow, which a build evaluates either in a 32-bit register    *)
(* (the sum wraps and is then sign-extended) or in a 64-bit register (the  *)
(* exact sum): both outcomes are returned.                                 *)
(***************************************************************************)
PlusOutcomes(x, d) ==
  IF (d = 1 /\ x = MaxCoord) \/ (d = -1 /\ x = MinCoord)
    THEN LET sum == Add64(SignExtend(x), SignExtend(d))
         IN  {SignExtend(ToCoord(sum)), sum}
    ELSE {SignExtend(x + d)}

(***************************************************************************)
(* WW(x + dx, y + dy).  WW keeps only the low 32 bits of each operand, so  *)
(* the outcomes of an overflowing operand give one key                     *)
(* (OverflowOutcomesAgree below).                                          *)
(***************************************************************************)
NeighbourKeys(x, dx, y, dy) ==
  {PackWhole(xw, yw) : xw \in PlusOutcomes(x, dx), yw \in PlusOutcomes(y, dy)}

NeighbourWhole(x, dx, y, dy) == CHOOSE w \in NeighbourKeys(x, dx, y, dy) : TRUE

Cell(x, y) == [x |-> x, y |-> y]
CellOfWhole(w) == Cell(XX(w), YY(w))

\* operator< with the coordinates taken in the wrong order: by y, then by x.
CellLessYFirst(lhs, rhs) ==
  IF lhs.y < rhs.y THEN TRUE
  ELSE IF lhs.y > rhs.y THEN FALSE
  ELSE lhs.x < rhs.x

(***************************************************************************)
(* operator< of Cell: by signed x, then by signed y.                       *)
(***************************************************************************)
CellLess(lhs, rhs) ==
  IF lhs.x < rhs.x THEN TRUE
  ELSE IF lhs.x > rhs.x THEN FALSE
  ELSE lhs.y < rhs.y

(***************************************************************************)
(* The cell file, line by line.  A line is blank, a comment, two integers  *)
(* ("x y"), or a word that is no integer ("abc").                          *)
(***************************************************************************)
Line(t, x, y) == [t |-> t, x |-> x, y |-> y]

(***************************************************************************)
(* The cells the files tried are made of, in three regions of the plane    *)
(* that are too far apart to touch: around the origin (the blinker of the  *)
(* specification and a cell above it), the column x = MinCoord at the end  *)
(* of the coordinate range, and the column x = MaxCoord - 1 next to the    *)
(* other end.  A file draws its cells from one region.                     *)
(***************************************************************************)
OriginCells == {Cell(0, 0), Cell(1, 0), Cell(2, 0), Cell(1, 1)}
EdgeCells == {Cell(MinCoord, -1), Cell(MinCoord, 0), Cell(MinCoord, 1)}
NearEdgeCells == {Cell(MaxCoord - 1, -1), Cell(MaxCoord - 1, 0), Cell(MaxCoord - 1, 1)}
Regions == {OriginCells, EdgeCells, NearEdgeCells}

OtherLines ==
  {Line("blank", 0, 0), Line("comment", 0, 0), Line("word", 0, 0)}

LinesOver(region) == {Line("cell", c.x, c.y) : c \in region} \cup OtherLines

Files ==
  UNION {[1..n -> LinesOver(region)] : n \in 0..MaxLines, region \in Regions}

\* What an int that is read before it was ever written may hold.
Indeterminate == {0, -1}

\* argc, and what atoi(argv[2]) returns.
ArgCounts == {2, 3}
TickArgs == -1..MaxTicks

VARIABLES
  pc,          \* where the driver is
  argc,        \* main's argc
  file_exists, \* is_file_exist(argv[1])
  nticks,      \* atoi(argv[2])
  i,           \* the loop counter of RunTest
  lines,       \* the lines read_cells_106 read from the file
  cells,       \* the vector `cells` of RunTest
  n_inserted,  \* what insert_cells returned
  ncells,      \* org.count() as RunTest last read it
  mismatch,    \* "oops cell count mismatch" was printed
  cells_m,     \* Organism::cells_m
  new_cells,   \* tick's new_cells
  todo,        \* the cells of cells_m that tick's loop has still to visit
  prev_cells,  \* cells_m as it was when the last finished tick began
  seed_cells,  \* cells_m as it was when the benchmark loop began
  live_out     \* what get_live_cells returned to the verification

vars == <<pc, argc, file_exists, nticks, i, lines, cells, n_inserted, ncells,
          mismatch, cells_m, new_cells, todo, prev_cells, seed_cells, live_out>>

(***************************************************************************)
(* Organism                                                                *)
(***************************************************************************)
count == Cardinality(cells_m)
is_alive(w) == IF w \in cells_m THEN 1 ELSE 0
is_dead(w) == IF w \notin cells_m THEN 1 ELSE 0

(***************************************************************************)
(* insert_cells on the set m: the set afterwards and the number inserted.  *)
(***************************************************************************)
RECURSIVE InsertFrom(_, _, _, _)
InsertFrom(list, k, m, n) ==
  IF k > Len(list) THEN [set |-> m, n_inserted |-> n]
  ELSE LET w == WW(list[k].x, list[k].y)
       IN  IF w \notin m THEN InsertFrom(list, k + 1, m \cup {w}, n + 1)
                         ELSE InsertFrom(list, k + 1, m, n)

\* insert_cells counting every element of the list, inserted or not.
insert_cells_counting_all(list) ==
  [set |-> InsertFrom(list, 1, cells_m, 0).set, n_inserted |-> Len(list)]

insert_cells(list) == InsertFrom(list, 1, cells_m, 0)

(***************************************************************************)
(* get_live_cells: one Cell per key, in the order the set happens to       *)
(* enumerate them, then std::sort with operator<.                          *)
(***************************************************************************)
RECURSIVE Enumerate(_)
Enumerate(m) ==
  IF m = {} THEN <<>>
  ELSE LET w == CHOOSE w \in m : TRUE
       IN  <<CellOfWhole(w)>> \o Enumerate(m \ {w})

\* c put into the sorted sequence s before the first element it is less than.
RECURSIVE InsertSorted(_, _)
InsertSorted(s, c) ==
  IF s = <<>> THEN <<c>>
  ELSE IF CellLess(c, Head(s)) THEN <<c>> \o s
  ELSE <<Head(s)>> \o InsertSorted(Tail(s), c)

RECURSIVE SortFrom(_, _, _)
SortFrom(v, k, s) ==
  IF k > Len(v) THEN s ELSE SortFrom(v, k + 1, InsertSorted(s, v[k]))

Sort(v) == SortFrom(v, 1, <<>>)

get_live_cells == Sort(Enumerate(cells_m))

(***************************************************************************)
(* The eight neighbour offsets in the order get_num_live and               *)
(* get_dead_cells scan them.                                               *)
(***************************************************************************)
Offsets == << <<-1, -1>>, <<-1, 0>>, <<-1, 1>>, <<0, -1>>,
              <<0, 1>>, <<1, -1>>, <<1, 0>>, <<1, 1>> >>

NeighbourAt(x, y, k) == NeighbourWhole(x, Offsets[k][1], y, Offsets[k][2])

RECURSIVE LiveFrom(_, _, _)
LiveFrom(x, y, k) ==
  IF k > 8 THEN 0 ELSE is_alive(NeighbourAt(x, y, k)) + LiveFrom(x, y, k + 1)

\* get_num_live without its first term, the neighbour at (x-1, y-1).
get_num_live_less_one(x, y) == LiveFrom(x, y, 2)

get_num_live(x, y) == LiveFrom(x, y, 1)

\* The buffer z as get_dead_cells leaves it; its length is the value returned.
RECURSIVE DeadFrom(_, _, _)
DeadFrom(x, y, k) ==
  IF k > 8 THEN <<>>
  ELSE LET w == NeighbourAt(x, y, k)
       IN  (IF is_dead(w) = 1 THEN <<w>> ELSE <<>>) \o DeadFrom(x, y, k + 1)

get_dead_cells(x, y) == DeadFrom(x, y, 1)

\* The loop body with survival on 3 or 4 live neighbours instead of 2 or 3.
VisitCellOffByOne(c) ==
  LET zcells == get_dead_cells(XX(c), YY(c))
      ndead == Len(zcells)
  IN  (IF ndead = 4 \/ ndead = 5 THEN {c} ELSE {})
        \cup {zcells[k] : k \in {k \in 1..ndead :
                 get_num_live(XX(zcells[k]), YY(zcells[k])) = 3}}

(***************************************************************************)
(* The body of tick's loop for the live cell c: the keys it inserts into   *)
(* new_cells.                                                              *)
(***************************************************************************)
VisitCell(c) ==
  LET zcells == get_dead_cells(XX(c), YY(c))
      ndead == Len(zcells)
  IN  (IF ndead = 5 \/ ndead = 6 THEN {c} ELSE {})
        \cup {zcells[k] : k \in {k \in 1..ndead :
                 get_num_live(XX(zcells[k]), YY(zcells[k])) = 3}}

(***************************************************************************)
(* tbench1                                                                 *)
(***************************************************************************)
(***************************************************************************)
(* read_cell on one line.  Of "x y" both extractions succeed.  Of a word   *)
(* the first extraction fails and stores 0 in x (C++11), and the second,   *)
(* on a stream that has failed, stores nothing: y is returned as it was    *)
(* left uninitialized, junk.                                               *)
(***************************************************************************)
read_cell(line, junk) ==
  IF line.t = "cell" THEN Cell(line.x, line.y) ELSE Cell(0, junk)

\* The positions of the lines whose parse leaves y unwritten.
Unwritten(f) == {k \in 1..Len(f) : f[k].t = "word"}

RECURSIVE ReadFrom(_, _, _)
ReadFrom(f, junk, k) ==
  IF k > Len(f) THEN <<>>
  ELSE IF f[k].t = "blank" THEN ReadFrom(f, junk, k + 1)
  ELSE IF f[k].t = "comment" THEN ReadFrom(f, junk, k + 1)
  ELSE <<read_cell(f[k], IF k \in DOMAIN junk THEN junk[k] ELSE 0)>>
         \o ReadFrom(f, junk, k + 1)

read_cells_106(opens, f, junk) == IF ~opens THEN <<>> ELSE ReadFrom(f, junk, 1)

Init ==
  /\ pc = "main"
  /\ argc = 0
  /\ file_exists = FALSE
  /\ nticks = 0
  /\ i = 0
  /\ lines = <<>>
  /\ cells = <<>>
  /\ n_inserted = 0
  /\ ncells = 0
  /\ mismatch = FALSE
  /\ cells_m = {}
  /\ new_cells = {}
  /\ todo = {}
  /\ prev_cells = {}
  /\ seed_cells = {}
  /\ live_out = <<>>

\* main: the argument checks.
Main ==
  /\ pc = "main"
  /\ \E n \in ArgCounts, e \in BOOLEAN, t \in TickArgs :
       /\ argc' = n
       /\ file_exists' = (n = 3 /\ e)
       /\ nticks' = IF n = 3 /\ e THEN t ELSE 0
       /\ pc' = IF n # 3 \/ ~e \/ t <= 0 THEN "exit1" ELSE "read"
  /\ UNCHANGED <<i, lines, cells, n_inserted, ncells, mismatch, cells_m,
                 new_cells, todo, prev_cells, seed_cells, live_out>>

\* RunTest: cells = read_cells_106(fname).
ReadCells ==
  /\ pc = "read"
  /\ \E opens \in BOOLEAN, f \in Files :
       \E junk \in [Unwritten(f) -> Indeterminate] :
         /\ lines' = IF opens THEN f ELSE <<>>
         /\ cells' = read_cells_106(opens, f, junk)
  /\ pc' = "insert"
  /\ UNCHANGED <<argc, file_exists, nticks, i, n_inserted, ncells, mismatch,
                 cells_m, new_cells, todo, prev_cells, seed_cells, live_out>>

\* RunTest: insert_cells, count and the mismatch check.
InsertCells ==
  /\ pc = "insert"
  /\ LET r == insert_cells(cells)
     IN  /\ cells_m' = r.set
         /\ n_inserted' = r.n_inserted
         /\ ncells' = Cardinality(r.set)
         /\ mismatch' = (Cardinality(r.set) # Len(cells))
  /\ pc' = "seeded"
  /\ UNCHANGED <<argc, file_exists, nticks, i, lines, cells, new_cells, todo,
                 prev_cells, seed_cells, live_out>>

\* RunTest: the block of `cells` ends and the loop starts at i = 1.
StartLoop ==
  /\ pc = "seeded"
  /\ lines' = <<>>
  /\ cells' = <<>>
  /\ n_inserted' = 0
  /\ ncells' = 0
  /\ mismatch' = FALSE
  /\ seed_cells' = cells_m
  /\ i' = 1
  /\ pc' = "loop"
  /\ UNCHANGED <<argc, file_exists, nticks, cells_m, new_cells, todo,
                 prev_cells, live_out>>

\* tick: new_cells is created empty and the loop over cells_m begins.
TickBegin ==
  /\ pc = "loop"
  /\ i <= nticks
  /\ new_cells' = {}
  /\ todo' = cells_m
  /\ pc' = "tick"
  /\ UNCHANGED <<argc, file_exists, nticks, i, lines, cells, n_inserted,
                 ncells, mismatch, cells_m, prev_cells, seed_cells, live_out>>

\* A tick that updates cells_m in place as it goes.
TickVisitInPlace ==
  /\ pc = "tick"
  /\ \E c \in todo :
       /\ new_cells' = new_cells \cup VisitCell(c)
       /\ cells_m' = (cells_m \ {c}) \cup VisitCell(c)
       /\ todo' = todo \ {c}
  /\ UNCHANGED <<pc, argc, file_exists, nticks, i, lines, cells, n_inserted,
                 ncells, mismatch, prev_cells, seed_cells, live_out>>

\* tick: one pass of the loop, for whichever cell the set enumerates next.
TickVisit ==
  /\ pc = "tick"
  /\ \E c \in todo :
       /\ new_cells' = new_cells \cup VisitCell(c)
       /\ todo' = todo \ {c}
  /\ UNCHANGED <<pc, argc, file_exists, nticks, i, lines, cells, n_inserted,
                 ncells, mismatch, cells_m, prev_cells, seed_cells, live_out>>

\* tick: cells_m = std::move(new_cells); then ++i of RunTest's loop.
TickEnd ==
  /\ pc = "tick"
  /\ todo = {}
  /\ cells_m' = new_cells
  /\ prev_cells' = cells_m
  /\ new_cells' = {}
  /\ i' = i + 1
  /\ pc' = "loop"
  /\ UNCHANGED <<argc, file_exists, nticks, lines, cells, n_inserted, ncells,
                 mismatch, todo, seed_cells, live_out>>

\* RunTest: the loop is over; the count is printed and main returns 0.
Finish ==
  /\ pc = "loop"
  /\ i > nticks
  /\ ncells' = count
  /\ pc' = "exit0"
  /\ UNCHANGED <<argc, file_exists, nticks, i, lines, cells, n_inserted,
                 mismatch, cells_m, new_cells, todo, prev_cells, seed_cells,
                 live_out>>

\* The verification reads the organism it was left with.
GetLiveCells ==
  /\ pc = "exit0"
  /\ live_out' = get_live_cells
  /\ pc' = "verified"
  /\ UNCHANGED <<argc, file_exists, nticks, i, lines, cells, n_inserted,
                 ncells, mismatch, cells_m, new_cells, todo, prev_cells,
                 seed_cells>>

Next ==
  \/ Main
  \/ ReadCells
  \/ InsertCells
  \/ StartLoop
  \/ TickBegin
  \/ TickVisit
  \/ TickEnd
  \/ Finish
  \/ GetLiveCells

Spec == Init /\ [][Next]_vars


(***************************************************************************)
(* A second specification for the packing macros alone: a coordinate pair  *)
(* is packed into the set (WW, as insert_cells does) and unpacked from it  *)
(* (XX and YY, as Cell(cell_whole_type) does).                             *)
(***************************************************************************)
CoordSamples ==
  {MinCoord, MinCoord + 1, 0 - Limb, -1, 0, 1, Limb - 1, Limb, MaxCoord - 1, MaxCoord}

CodecInit ==
  /\ pc = "pack"
  /\ \E x, y \in CoordSamples : cells = <<Cell(x, y)>>
  /\ argc = 0
  /\ file_exists = FALSE
  /\ nticks = 0
  /\ i = 0
  /\ lines = <<>>
  /\ n_inserted = 0
  /\ ncells = 0
  /\ mismatch = FALSE
  /\ cells_m = {}
  /\ new_cells = {}
  /\ todo = {}
  /\ prev_cells = {}
  /\ seed_cells = {}
  /\ live_out = <<>>

Pack ==
  /\ pc = "pack"
  /\ cells_m' = {WW(cells[1].x, cells[1].y)}
  /\ pc' = "unpack"
  /\ UNCHANGED <<argc, file_exists, nticks, i, lines, cells, n_inserted,
                 ncells, mismatch, new_cells, todo, prev_cells, seed_cells,
                 live_out>>

Unpack ==
  /\ pc = "unpack"
  /\ \E w \in cells_m : live_out' = <<CellOfWhole(w)>>
  /\ pc' = "unpacked"
  /\ UNCHANGED <<argc, file_exists, nticks, i, lines, cells, n_inserted,
                 ncells, mismatch, cells_m, new_cells, todo, prev_cells,
                 seed_cells>>

CodecNext == Pack \/ Unpack

CodecSpec == CodecInit /\ [][CodecNext]_vars

(***************************************************************************)
(* The outcomes of an overflowing x + d give one key: the choice made in   *)
(* NeighbourWhole is no choice.                                            *)
(***************************************************************************)
OverflowOutcomesAgree ==
  \A x, y \in {MinCoord, 0, MaxCoord} : \A dx, dy \in -1..1 :
    Cardinality(NeighbourKeys(x, dx, y, dy)) = 1

(***************************************************************************)
(* Conway's rule on the integer lattice, for reference.  Differences and   *)
(* sums of coordinates are avoided so that nothing here can overflow.      *)
(***************************************************************************)
Decode(m) == {CellOfWhole(w) : w \in m}

\* |a - b| <= 1 on the integers.
Within1(a, b) ==
  \/ a = b
  \/ a < MaxCoord /\ a + 1 = b
  \/ b < MaxCoord /\ b + 1 = a

\* Chebyshev distance at most 1.
Touches(c, d) == Within1(c.x, d.x) /\ Within1(c.y, d.y)

\* The representable coordinates within 1 of v.
Around(v) ==
  {v} \cup (IF v > MinCoord THEN {v - 1} ELSE {})
      \cup (IF v < MaxCoord THEN {v + 1} ELSE {})

\* The representable cells of the Moore neighbourhood of c, c itself excluded.
Moore(c) == {Cell(x, y) : x \in Around(c.x), y \in Around(c.y)} \ {c}

LatticeLive(c, S) == Cardinality({s \in S : s # c /\ Touches(c, s)})

LatticeNext(S) ==
  {c \in S \cup UNION {Moore(s) : s \in S} :
     IF c \in S THEN LatticeLive(c, S) \in {2, 3} ELSE LatticeLive(c, S) = 3}

\* No cell of S has a coordinate at an end of the int32_t range.
Interior(S) ==
  \A c \in S : /\ MinCoord < c.x /\ c.x < MaxCoord
               /\ MinCoord < c.y /\ c.y < MaxCoord

\* At least one tick has finished: prev_cells is the generation before cells_m.
Ticked == i > 1

(***************************************************************************)
(* The rule of tick read off the whole pre-tick set S at once, on keys,    *)
(* with the neighbours the code computes.                                  *)
(***************************************************************************)
KeyNeighbours(w) == {NeighbourAt(XX(w), YY(w), k) : k \in 1..8}

WholeNext(S) ==
  {w \in S \cup UNION {KeyNeighbours(s) : s \in S} :
     LET n == Cardinality(KeyNeighbours(w) \cap S)
     IN  IF w \in S THEN n \in {2, 3} ELSE n = 3}

\* The elements of a sequence.
Range(s) == {s[k] : k \in DOMAIN s}

HorizontalBlinker == {Cell(0, 0), Cell(1, 0), Cell(2, 0)}
VerticalBlinker == {Cell(1, -1), Cell(1, 0), Cell(1, 1)}

C2_NeverWraps == Ticked => Decode(cells_m) = LatticeNext(Decode(prev_cells))

(***************************************************************************)
(* C3: the driver exits with status 1, no organism seeded or ticked, on a  *)
(* wrong argument count, a missing file or a tick count <= 0; and only the *)
(* lines holding two integers add a cell to the live set.                  *)
(***************************************************************************)
C3_FailuresStayOut ==
  /\ pc = "exit1" => (cells_m = {} /\ cells = <<>> /\ i = 0 /\ prev_cells = {})
  /\ (pc \notin {"main", "pack", "unpack", "unpacked"}
        /\ (argc # 3 \/ ~file_exists \/ nticks <= 0)) => pc = "exit1"
  /\ pc = "seeded" =>
       Decode(cells_m) = {Cell(l.x, l.y) : l \in {l \in Range(lines) : l.t = "cell"}}

(***************************************************************************)
(* C4: insert_cells returns the number of distinct coordinates of the list *)
(* that were not alive before, and count() grows by that number; seeding a *)
(* fresh organism gives count() = the number of distinct coordinates, and  *)
(* the driver reports a mismatch exactly when the list repeats one.        *)
(***************************************************************************)
InsertProbes ==
  UNION {[1..n -> {Cell(0, 0), Cell(1, -1), Cell(MinCoord, 0)}] : n \in 0..2}

C4_InsertCounts ==
  /\ pc = "seeded" =>
       /\ n_inserted = Cardinality(Range(cells))
       /\ ncells = n_inserted
       /\ count = n_inserted
       /\ Decode(cells_m) = Range(cells)
       /\ mismatch <=> (\E j, k \in DOMAIN cells : j # k /\ cells[j] = cells[k])
       /\ mismatch <=> (count # Len(cells))
  /\ pc = "loop" =>
       \A list \in InsertProbes :
         LET r == insert_cells(list)
             fresh == Range(list) \ Decode(cells_m)
         IN  /\ r.n_inserted = Cardinality(fresh)
             /\ Cardinality(r.set) = count + r.n_inserted
             /\ Decode(r.set) = Decode(cells_m) \cup Range(list)

\* A fresh organism was seeded with a list of three that repeats a coordinate.
C4_Witness ==
  /\ pc = "seeded"
  /\ Len(cells) = 3
  /\ n_inserted = 2
  /\ mismatch

(***************************************************************************)
(* C5: after a tick every live cell is within Chebyshev distance 1 of a    *)
(* cell of the generation before; the result has at most 9 times as many   *)
(* cells, and the empty set stays empty.                                   *)
(***************************************************************************)
C5_StaysWithin1 ==
  Ticked =>
    LET S == Decode(prev_cells)
        R == Decode(cells_m)
    IN  /\ \A c \in R : \E s \in S : Touches(c, s)
        /\ Cardinality(R) <= 9 * Cardinality(S)
        /\ S = {} => R = {}

(***************************************************************************)
(* C6: for every coordinate c, get_num_live(c) plus the number of cells    *)
(* get_dead_cells(c) writes is 8, and the cells written are exactly the    *)
(* dead cells among the Moore neighbours of c, each once.                  *)
(***************************************************************************)
ProbeCells ==
  Decode(cells_m) \cup {Cell(0, 0), Cell(-1, 1), Cell(MinCoord, 0), Cell(MaxCoord, MaxCoord)}

C6_NeighboursSplit ==
  \A c \in ProbeCells :
    LET z == get_dead_cells(c.x, c.y)
    IN  /\ get_num_live(c.x, c.y) + Len(z) = 8
        /\ Len(z) <= 8
        /\ \A j, k \in DOMAIN z : j # k => z[j] # z[k]
        /\ Decode(Range(z)) = {d \in Moore(c) : is_dead(WW(d.x, d.y)) = 1}

\* The part of C6 that does not look at which cells the neighbours are.
NeighbourCountsAddUp ==
  \A c \in ProbeCells :
    LET z == get_dead_cells(c.x, c.y)
    IN  /\ get_num_live(c.x, c.y) + Len(z) = 8
        /\ \A j, k \in DOMAIN z : j # k => z[j] # z[k]
        /\ \A k \in DOMAIN z : z[k] \notin cells_m

(***************************************************************************)
(* C7: the organism seeded with the blinker {(0,0),(1,0),(2,0)} is         *)
(* {(1,-1),(1,0),(1,1)} after every odd number of ticks and the seed again *)
(* after every even number.                                                *)
(***************************************************************************)
C7_BlinkerPeriod2 ==
  (pc \in {"loop", "tick", "exit0", "verified"}
     /\ Decode(seed_cells) = HorizontalBlinker)
    => /\ Cardinality(cells_m) = 3
       /\ Decode(cells_m) =
            IF (i - 1) % 2 = 0 THEN HorizontalBlinker ELSE VerticalBlinker

\* The blinker after its second tick.
C7_Witness ==
  /\ Decode(seed_cells) = HorizontalBlinker
  /\ pc = "loop"
  /\ i = 3
  /\ Decode(prev_cells) = VerticalBlinker

(***************************************************************************)
(* C8: get_live_cells returns every live coordinate once and nothing else, *)
(* strictly increasing by signed x and then signed y, and leaves the live  *)
(* set as it was.                                                          *)
(***************************************************************************)
C8_SortedLiveCells ==
  /\ LET out == get_live_cells
     IN  /\ Len(out) = count
         /\ Range(out) = Decode(cells_m)
         /\ \A k \in 1..(Len(out) - 1) :
              \/ out[k].x < out[k + 1].x
              \/ out[k].x = out[k + 1].x /\ out[k].y < out[k + 1].y
         /\ pc = "verified" => live_out = out
  /\ pc = "verified" => (Len(live_out) = ncells /\ count = ncells)

\* The verification got a list of cells of negative and of positive x.
C8_Witness ==
  /\ pc = "verified"
  /\ Len(live_out) >= 3
  /\ live_out[1].x < 0
  /\ live_out[Len(live_out)].x > 0

(***************************************************************************)
(* C9: unpacking a packed coordinate pair gives the pair back, whatever    *)
(* the signs, and no other pair packs to the same key.                     *)
(***************************************************************************)
C9_PackRoundTrip ==
  /\ pc \in {"unpack", "unpacked"} =>
       LET c == cells[1]
       IN  /\ \A w \in cells_m : XX(w) = c.x /\ YY(w) = c.y
           /\ XX(WW(c.x, c.y)) = c.x
           /\ YYSigned(WW(c.x, c.y)) = c.y
           /\ \A x, y \in CoordSamples :
                Cell(x, y) # c => WW(x, y) \notin cells_m
  /\ pc = "unpacked" => live_out = cells

\* The pair (-2^31, -1) went through the set and came back.
C9_Witness ==
  /\ pc = "unpacked"
  /\ cells = <<Cell(MinCoord, -1)>>
  /\ live_out = cells

(***************************************************************************)
(* C10: while tick visits the live cells cells_m stays as it was; it       *)
(* changes once, in the step that ends the tick, to the finished new set;  *)
(* and in whatever order the cells were visited the finished set is the    *)
(* rule applied to the pre-tick set as a whole.                            *)
(***************************************************************************)
C10_WholeReplacement ==
  /\ [](pc = "tick" /\ todo = {} => new_cells = WholeNext(cells_m))
  /\ [][pc = "tick" =>
          \/ cells_m' = cells_m /\ pc' = "tick"
          \/ todo = {} /\ pc' = "loop" /\ cells_m' = new_cells]_vars

\* In the middle of a tick: some cells visited, some not, and new_cells
\* already holds a cell that was dead before the tick.
C10_Witness ==
  /\ pc = "tick"
  /\ todo # {}
  /\ todo # cells_m
  /\ new_cells \ cells_m # {}

=============================================================================
